---- MODULE Spec2Model ----
(***************************************************************************)
(* Model of the pixel-art exchange edge proxy (src/src/worker.ts): the     *)
(* fetch handler's request pipeline, the Origin Policy (corsHeaders), the  *)
(* Input Validator (validateInput), the moderation word list and the       *)
(* Upstream Client (callSupabaseRpc).                                      *)
(*                                                                         *)
(* Text that the code takes apart (header values, the allow-list           *)
(* configuration, titles, pixel colours, the word-list CSV) is a sequence  *)
(* of one-character strings.  Text that the code only builds and compares  *)
(* (error messages, response bodies) is a TLA+ string.                     *)
(***************************************************************************)
EXTENDS Integers, Sequences, FiniteSets, TLC

(***************************************************************************)
(* Bounds of the model.                                                    *)
(***************************************************************************)
\* longest raw ALLOWED_ORIGINS configuration string that is enumerated
MaxConfigLen == 3
\* titles are enumerated up to MAX_TITLE_LENGTH + TitleSlack characters
TitleSlack == 1
\* pixel arrays are enumerated with MAX_PIXELS_LENGTH - PixelSlack ..
\* MAX_PIXELS_LENGTH + PixelSlack items (and the empty array)
PixelSlack == 1
\* number of exchange_art calls
MaxCalls == 3
\* number of inputs the user makes on the page (pixels, colour, title)
MaxEdits == 3
\* number of clicks on the exchange button
MaxClicks == 2
\* number of posts addToAlbum is given while the album holds that many
MaxAlbum == 3

(***************************************************************************)
(* Program constants.                                                      *)
(***************************************************************************)
MAX_TITLE_LENGTH == 5
MAX_PIXELS_LENGTH == 16
CanvasSize == 16

(***************************************************************************)
(* String primitives of the JavaScript runtime, on sequences of            *)
(* characters.                                                             *)
(***************************************************************************)
\* the characters String.prototype.trim removes (those that occur here)
WhiteSpace == {" ", "\t", "\n", "\r"}

RECURSIVE TrimStart(_)
TrimStart(s) ==
    IF s # <<>> /\ Head(s) \in WhiteSpace THEN TrimStart(Tail(s)) ELSE s

RECURSIVE TrimEnd(_)
TrimEnd(s) ==
    IF s # <<>> /\ s[Len(s)] \in WhiteSpace
    THEN TrimEnd(SubSeq(s, 1, Len(s) - 1))
    ELSE s

\* String.prototype.trim
Trim(s) == TrimEnd(TrimStart(s))

\* String.prototype.split with a one-character separator: the pieces between
\* separators, empty pieces kept; the empty string splits to one empty piece
RECURSIVE Split(_, _)
Split(s, sep) ==
    IF \A i \in 1..Len(s) : s[i] # sep
    THEN <<s>>
    ELSE LET i == CHOOSE k \in 1..Len(s) :
                      s[k] = sep /\ \A j \in 1..(k - 1) : s[j] # sep
         IN  <<SubSeq(s, 1, i - 1)>> \o Split(SubSeq(s, i + 1, Len(s)), sep)

\* .map((x) => x.trim())
MapTrim(list) == [i \in 1..Len(list) |-> Trim(list[i])]

\* .filter(Boolean) on strings: the empty string is falsy and is dropped
IsNonEmpty(s) == s # <<>>
FilterBoolean(list) == SelectSeq(list, IsNonEmpty)

\* String.prototype.includes
Includes(s, w) ==
    \E i \in 1..(Len(s) - Len(w) + 1) : SubSeq(s, i, i + Len(w) - 1) = w

\* Array.prototype.includes / some((o) => o === x)
ArrayIncludes(list, x) == \E i \in 1..Len(list) : list[i] = x

\* headers.get(name) || fallback: an absent header (null) and an empty value
\* are both falsy
HeaderOr(h, fallback) ==
    IF h.present /\ h.value # <<>> THEN h.value ELSE fallback

(***************************************************************************)
(* Moderation word list.                                                   *)
(***************************************************************************)
\* an excerpt of the embedded CSV (lines 30-202): the header line, three of
\* its words, one per line, and the trailing newline
NG_WORDS_CSV ==
    <<"w", "o", "r", "d", "\n",
      "d", "i", "e", "\n",
      "s", "e", "x", "\n",
      "f", "a", "g", "\n">>

parseNgWordsCsv(csv) ==
    LET lines == Split(Trim(csv), "\n")
    IN  FilterBoolean(MapTrim(SubSeq(lines, 2, Len(lines))))

NG_WORDS == parseNgWordsCsv(NG_WORDS_CSV)

(***************************************************************************)
(* Origin Policy.                                                          *)
(***************************************************************************)
Wildcard == <<"*">>

\* the allow-list split and filtered, its entries not trimmed
parseAllowedOrigins_NoTrim(cfg) ==
    FilterBoolean(Split(HeaderOr(cfg, <<>>), ","))

\* (env.ALLOWED_ORIGINS || "").split(",").map((o) => o.trim()).filter(Boolean)
parseAllowedOrigins(cfg) ==
    FilterBoolean(MapTrim(Split(HeaderOr(cfg, <<>>), ",")))

\* the header computed from listed origins only, a wildcard entry ignored
isAllowed_NoWildcard(o, allowed) ==
    \E i \in 1..Len(allowed) : allowed[i] = o

isAllowed(o, allowed) ==
    \E i \in 1..Len(allowed) : allowed[i] = o \/ allowed[i] = Wildcard

corsHeaders(o, allowed) ==
    [ACAO |-> IF isAllowed(o, allowed) THEN o ELSE <<>>,
     ACAM |-> "POST, OPTIONS",
     ACAH |-> "Content-Type",
     ACMA |-> "86400"]

\* the origin check applied only to requests that declare an origin
originForbidden_OnlyDeclaredOrigins(o, allowed) ==
    /\ o # <<>>
    /\ Len(allowed) > 0
    /\ ~ArrayIncludes(allowed, o)
    /\ ~ArrayIncludes(allowed, Wildcard)

\* line 355: the condition of the origin check
originForbidden(o, allowed) ==
    /\ Len(allowed) > 0
    /\ ~ArrayIncludes(allowed, o)
    /\ ~ArrayIncludes(allowed, Wildcard)

(***************************************************************************)
(* JSON values as request.json() yields them.  A scalar is [t, s]: its     *)
(* JSON type and, for a string, its characters.  The value of the pixels   *)
(* property is [t, items].  A body is [t, title, pixels]; t is             *)
(* "syntaxerror" when request.json() rejects.                              *)
(***************************************************************************)
Str(s) == [t |-> "string", s |-> s]
Num == [t |-> "number", s |-> <<>>]
Null == [t |-> "null", s |-> <<>>]
Undefined == [t |-> "undefined", s |-> <<>>]

Arr(items) == [t |-> "array", items |-> items]
NotArr(type) == [t |-> type, items |-> <<>>]

Obj(title, pixels) == [t |-> "object", title |-> title, pixels |-> pixels]
\* a body that is not an object: reading .title and .pixels of a number, a
\* string, a boolean or an array yields undefined
NonObj(type) ==
    [t |-> type, title |-> Undefined, pixels |-> NotArr("undefined")]

\* the typeof operator
TypeOf(v) == IF v.t = "null" THEN "object" ELSE v.t

\* const { title, pixels } = body throws a TypeError when body is null
DestructureThrows(body) == body.t = "null"

(***************************************************************************)
(* Input Validator.                                                        *)
(***************************************************************************)
HexDigits ==
    {"0", "1", "2", "3", "4", "5", "6", "7", "8", "9",
     "a", "b", "c", "d", "e", "f", "A", "B", "C", "D", "E", "F"}

\* /^#[0-9a-fA-F]{6}$/.test(s)
colorRegexTest(s) ==
    /\ Len(s) = 7
    /\ s[1] = "#"
    /\ \A i \in 2..7 : s[i] \in HexDigits

Invalid(error) == [valid |-> FALSE, error |-> error]
Valid == [valid |-> TRUE, error |-> ""]

\* a title is truthy when it is a non-empty string (the type check has
\* returned for every other defined and falsy or truthy value)
Truthy(title) == title.t = "string" /\ title.s # <<>>

\* validateInput without the moderation check
validateInput_NoModeration(body) ==
    LET title == body.title
        pixels == body.pixels
    IN  IF title.t # "undefined" /\ TypeOf(title) # "string"
        THEN Invalid("title must be a string")
        ELSE IF Truthy(title) /\ Len(title.s) > MAX_TITLE_LENGTH
        THEN Invalid("title max " \o ToString(MAX_TITLE_LENGTH) \o " chars")
        ELSE IF pixels.t # "array"
        THEN Invalid("pixels must be an array")
        ELSE IF Len(pixels.items) # MAX_PIXELS_LENGTH
        THEN Invalid("pixels must have " \o ToString(MAX_PIXELS_LENGTH)
                     \o " items")
        ELSE IF \E i \in 1..Len(pixels.items) :
                    \/ TypeOf(pixels.items[i]) # "string"
                    \/ ~colorRegexTest(pixels.items[i].s)
        THEN Invalid("invalid pixel color format")
        ELSE Valid

\* validateInput with the pixel rules applied before the title rules
validateInput_PixelsFirst(body) ==
    LET title == body.title
        pixels == body.pixels
    IN  IF pixels.t # "array"
        THEN Invalid("pixels must be an array")
        ELSE IF Len(pixels.items) # MAX_PIXELS_LENGTH
        THEN Invalid("pixels must have " \o ToString(MAX_PIXELS_LENGTH)
                     \o " items")
        ELSE IF \E i \in 1..Len(pixels.items) :
                    \/ TypeOf(pixels.items[i]) # "string"
                    \/ ~colorRegexTest(pixels.items[i].s)
        THEN Invalid("invalid pixel color format")
        ELSE IF title.t # "undefined" /\ TypeOf(title) # "string"
        THEN Invalid("title must be a string")
        ELSE IF Truthy(title) /\ Len(title.s) > MAX_TITLE_LENGTH
        THEN Invalid("title max " \o ToString(MAX_TITLE_LENGTH) \o " chars")
        ELSE IF Truthy(title)
                /\ \E i \in 1..Len(NG_WORDS) : Includes(title.s, NG_WORDS[i])
        THEN Invalid("inappropriate title")
        ELSE Valid

\* validateInput with the count check accepting more than 16 pixels
validateInput_CountAtLeast(body) ==
    LET title == body.title
        pixels == body.pixels
    IN  IF title.t # "undefined" /\ TypeOf(title) # "string"
        THEN Invalid("title must be a string")
        ELSE IF Truthy(title) /\ Len(title.s) > MAX_TITLE_LENGTH
        THEN Invalid("title max " \o ToString(MAX_TITLE_LENGTH) \o " chars")
        ELSE IF Truthy(title)
                /\ \E i \in 1..Len(NG_WORDS) : Includes(title.s, NG_WORDS[i])
        THEN Invalid("inappropriate title")
        ELSE IF pixels.t # "array"
        THEN Invalid("pixels must be an array")
        ELSE IF Len(pixels.items) < MAX_PIXELS_LENGTH
        THEN Invalid("pixels must have " \o ToString(MAX_PIXELS_LENGTH)
                     \o " items")
        ELSE IF \E i \in 1..Len(pixels.items) :
                    \/ TypeOf(pixels.items[i]) # "string"
                    \/ ~colorRegexTest(pixels.items[i].s)
        THEN Invalid("invalid pixel color format")
        ELSE Valid

\* validateInput with the moderation words looked for at the start of the
\* title only
validateInput_WordAtStart(body) ==
    LET title == body.title
        pixels == body.pixels
    IN  IF title.t # "undefined" /\ TypeOf(title) # "string"
        THEN Invalid("title must be a string")
        ELSE IF Truthy(title) /\ Len(title.s) > MAX_TITLE_LENGTH
        THEN Invalid("title max " \o ToString(MAX_TITLE_LENGTH) \o " chars")
        ELSE IF Truthy(title)
                /\ \E i \in 1..Len(NG_WORDS) :
                       /\ Len(title.s) >= Len(NG_WORDS[i])
                       /\ SubSeq(title.s, 1, Len(NG_WORDS[i])) = NG_WORDS[i]
        THEN Invalid("inappropriate title")
        ELSE IF pixels.t # "array"
        THEN Invalid("pixels must be an array")
        ELSE IF Len(pixels.items) # MAX_PIXELS_LENGTH
        THEN Invalid("pixels must have " \o ToString(MAX_PIXELS_LENGTH)
                     \o " items")
        ELSE IF \E i \in 1..Len(pixels.items) :
                    \/ TypeOf(pixels.items[i]) # "string"
                    \/ ~colorRegexTest(pixels.items[i].s)
        THEN Invalid("invalid pixel color format")
        ELSE Valid

validateInput(body) ==
    LET title == body.title
        pixels == body.pixels
    IN  IF title.t # "undefined" /\ TypeOf(title) # "string"
        THEN Invalid("title must be a string")
        ELSE IF Truthy(title) /\ Len(title.s) > MAX_TITLE_LENGTH
        THEN Invalid("title max " \o ToString(MAX_TITLE_LENGTH) \o " chars")
        ELSE IF Truthy(title)
                /\ \E i \in 1..Len(NG_WORDS) : Includes(title.s, NG_WORDS[i])
        THEN Invalid("inappropriate title")
        ELSE IF pixels.t # "array"
        THEN Invalid("pixels must be an array")
        ELSE IF Len(pixels.items) # MAX_PIXELS_LENGTH
        THEN Invalid("pixels must have " \o ToString(MAX_PIXELS_LENGTH)
                     \o " items")
        ELSE IF \E i \in 1..Len(pixels.items) :
                    \/ TypeOf(pixels.items[i]) # "string"
                    \/ ~colorRegexTest(pixels.items[i].s)
        THEN Invalid("invalid pixel color format")
        ELSE Valid

(***************************************************************************)
(* Responses.                                                              *)
(***************************************************************************)
\* JSON.stringify({ error }) for the messages of this program, none of which
\* holds a character that JSON escapes
JsonError(error) == "{\"error\":\"" \o error \o "\"}"

\* { ...headers, "Content-Type": "application/json" }
WithContentType(h) ==
    [n \in DOMAIN h \cup {"ContentType"} |->
        IF n = "ContentType" THEN "application/json" ELSE h[n]]

createErrorResponse(error, status, h) ==
    [status |-> status,
     hasBody |-> TRUE,
     body |-> JsonError(error),
     headers |-> WithContentType(h)]

(***************************************************************************)
(* Upstream Client.                                                        *)
(***************************************************************************)
\* the placeholder title (three kana in the source; written in Latin here)
DefaultTitle == <<"mu", "da", "i">>

\* JSON.stringify of an array of colour strings: none needs an escape
RECURSIVE JoinQuoted(_)
JoinQuoted(items) ==
    IF items = <<>> THEN <<>>
    ELSE <<"\"">> \o Head(items).s \o <<"\"">>
         \o (IF Len(items) > 1 THEN <<",">> ELSE <<>>)
         \o JoinQuoted(Tail(items))

JsonStringifyArray(items) == <<"[">> \o JoinQuoted(items) \o <<"]">>

\* the call made to the upstream endpoint: the arguments callSupabaseRpc is
\* given and the body it posts
callSupabaseRpc(title, pixels) ==
    [title |-> title,
     pixels |-> pixels,
     new_title |-> IF title # <<>> THEN title ELSE DefaultTitle,
     new_pixels |-> JsonStringifyArray(pixels.items)]

\* Response.ok
Ok(status) == status >= 200 /\ status <= 299

(***************************************************************************)
(* Inputs: requests, configurations, bodies, answers of the limiter and of *)
(* the upstream.                                                           *)
(***************************************************************************)
Rep(c, n) == [i \in 1..n |-> c]

Absent == [present |-> FALSE, value |-> <<>>]
Present(v) == [present |-> TRUE, value |-> v]

Methods == {"OPTIONS", "POST", "GET"}
Pathnames == {"/exchange", "/"}
OriginHeaders == {Absent, Present(<<"a">>), Present(<<"b">>), Present(<<"*">>)}
IpAddress == <<"1", ".", "2", ".", "3", ".", "4">>
Unknown == <<"u", "n", "k", "n", "o", "w", "n">>
IpHeaders == {Absent, Present(IpAddress)}

\* every raw ALLOWED_ORIGINS string of at most MaxConfigLen characters over
\* an origin, the separator, a blank and the wildcard; or no setting at all
ConfigChars == {"a", ",", " ", "*"}
Configs ==
    {Absent} \cup
    {Present(v) : v \in UNION {[1..n -> ConfigChars] : n \in 0..MaxConfigLen}}

\* titles: a run of letters, or a word (a moderation word, or a word that is
\* not one) with letters before and after it
TitleTexts(words) ==
    LET L == MAX_TITLE_LENGTH + TitleSlack
    IN  {t \in {Rep("a", k) \o w \o Rep("a", m) :
                    k \in 0..L, m \in 0..L, w \in words} : Len(t) <= L}

GoodColor == <<"#", "a", "0", "B", "b", "9", "F">>
BadItems ==
    {Num, Null,
     Str(<<"a", "0", "B", "b", "9", "F", "0">>),
     Str(<<"#", "a", "0", "B">>),
     Str(<<"#", "a", "0", "B", "b", "9", "F", "0">>),
     Str(<<"#", "a", "0", "B", "b", "9", "g">>)}

\* pixel arrays: all items good, or one bad item first or last
PixelCounts ==
    {0} \cup ((MAX_PIXELS_LENGTH - PixelSlack)..(MAX_PIXELS_LENGTH + PixelSlack))
PixelArrays ==
    {Arr(Rep(Str(GoodColor), n)) : n \in PixelCounts}
    \cup UNION {{Arr([i \in 1..n |-> IF i = p THEN bad ELSE Str(GoodColor)]) :
                     p \in {1, n}, bad \in BadItems} : n \in PixelCounts \ {0}}

GoodPixels == Arr(Rep(Str(GoodColor), MAX_PIXELS_LENGTH))

TitleValues ==
    {Undefined, Num, Null}
    \cup {Str(t) : t \in TitleTexts({<<>>, NG_WORDS[1], <<"d", "e", "i">>})}
PixelValues == {NotArr("undefined"), NotArr("string")} \cup PixelArrays

\* the bodies a request is read with: unparseable text, JSON that is not an
\* object, and objects that vary the title (with good pixels) or the pixels
\* (with no title or a good one)
RequestBodies ==
    {NonObj("syntaxerror"), NonObj("null"), NonObj("number"),
     NonObj("string"), NonObj("array")}
    \cup {Obj(t, GoodPixels) : t \in TitleValues}
    \cup {Obj(t, p) : t \in {Undefined, Str(<<"a", "b">>)}, p \in PixelValues}

\* what the upstream call yields: a response (status and body text), or an
\* exception from fetch or from reading the body
UpstreamStatuses == {200, 201, 400, 500, 503}
UpstreamTexts ==
    {"null", "",
     "{\"id\":\"x\",\"title\":\"t\",\"pixels\":\"[]\",\"created_at\":\"2024-01-01T00:00:00Z\"}",
     "{\"message\":\"relation art_posts does not exist\"}"}
UpstreamOutcomes ==
    {[kind |-> "throw", status |-> 0, text |-> ""]}
    \cup {[kind |-> "response", status |-> st, text |-> tx] :
              st \in UpstreamStatuses, tx \in UpstreamTexts}

(***************************************************************************)
(* State: one request through the fetch handler.                           *)
(***************************************************************************)
VARIABLES
    request,         \* the inbound request: method, pathname, headers
    env,             \* the configuration: ALLOWED_ORIGINS
    pc,              \* where the handler is; "returned" or "threw" at the end
    origin,          \* const origin
    ip,              \* const ip
    allowedOrigins,  \* const allowedOrigins
    headers,         \* const headers = corsHeaders(origin, allowedOrigins)
    rate,            \* the limiter's decision
    body,            \* the parsed body, once request.json() was awaited
    validation,      \* the result of validateInput
    supabaseRes,     \* what the upstream call yielded
    response,        \* the Response the handler returned
    limiterCalls,    \* the keys RATE_LIMITER.limit was called with
    rpcCalls,        \* the calls made to the upstream endpoint
    stages           \* the pipeline stages run so far, in order

proxyVars ==
    <<request, env, pc, origin, ip, allowedOrigins, headers, rate, body,
      validation, supabaseRes, response, limiterCalls, rpcCalls, stages>>

(***************************************************************************)
(* State of the upstream database (exchange_art.sql): the art_posts table  *)
(* and the exchange_art calls in progress.                                 *)
(***************************************************************************)
VARIABLES
    art_posts,       \* the committed rows of public.art_posts, oldest first
    rowLocks,        \* the row locks held: [id, by]
    calls,           \* the state of each exchange_art call
    nextId,          \* the next value of gen_random_uuid()
    clock,           \* now()
    overlapped       \* whether a call ever began while another was running

sqlVars == <<art_posts, rowLocks, calls, nextId, clock, overlapped>>

Callers == 1..MaxCalls

\* SQL NULL in a text column; 0 is NULL in the id and created_at columns,
\* whose values start at 1
SqlNull == "NULL"

\* found_post when the select found no row: every field NULL
NullRecord ==
    [id |-> 0, title |-> SqlNull, pixels |-> SqlNull, created_at |-> 0]

\* the value exchange_art returns: SQL NULL, or the jsonb object
NullResult == [isNull |-> TRUE, obj |-> NullRecord]

IdleCall ==
    [pc |-> "idle",
     new_title |-> SqlNull,
     new_pixels |-> SqlNull,
     found_post |-> NullRecord,
     new_post_id |-> 0,
     started |-> 0,               \* now() of the call's transaction
     updated |-> 0,               \* the id whose row the call's UPDATE wrote
     result |-> NullResult,
     available |-> {}]            \* ids the select could have taken

SqlInit ==
    /\ art_posts = <<>>
    /\ rowLocks = {}
    /\ calls = [c \in Callers |-> IdleCall]
    /\ nextId = 1
    /\ clock = 1
    /\ overlapped = FALSE

(***************************************************************************)
(* State of the browser client (app.js): the word list it loads, the       *)
(* canvas and title input, the exchange button and its click handlers in   *)
(* progress, the album and its copy in localStorage.                       *)
(***************************************************************************)
VARIABLES
    clientNgWords,   \* NG_WORDS of app.js
    ngLoad,          \* how far the DOMContentLoaded handler got, and the
                     \* outcome of its fetch of ng_words.csv
    warnings,        \* the console.warn calls of loadNgWords
    albumLoaded,     \* whether loadAlbumFromStorage has run
    currentSelectedColor,
    currentPixels,   \* window.currentPixels, indexed from 0
    titleValue,      \* titleInput.value
    disabled,        \* exchangeBtn.disabled
    pending,         \* the click handlers awaiting fetch or response.json()
    outcome,         \* what the last run of the click handler came to
    edits,           \* the user's inputs so far (pixels, colour, title)
    clicks,          \* the clicks on the exchange button so far
    localStorage,    \* the posts stored under STORAGE_KEY, newest first
    albumList,       \* the ids of the posts shown in the album, newest first
    hasNotifiedInvalidPixels

appVars ==
    <<clientNgWords, ngLoad, warnings, albumLoaded, currentSelectedColor,
      currentPixels, titleValue, disabled, pending, outcome, edits, clicks,
      localStorage, albumList, hasNotifiedInvalidPixels>>

\* the variables of the other components, which the proxy leaves alone
otherVars == <<sqlVars, appVars>>

\* the variables the database leaves alone
nonSqlVars == <<proxyVars, appVars>>

vars == <<proxyVars, sqlVars, appVars>>

White == "#ffffff"
AllWhite == [i \in 0..(CanvasSize - 1) |-> White]

NotLoading == [pc |-> "initial", kind |-> "none", status |-> 0]

\* the page after app.js ran, with the album stored by earlier visits
AppInit(stored) ==
    /\ clientNgWords = <<>>
    /\ ngLoad = NotLoading
    /\ warnings = 0
    /\ albumLoaded = FALSE
    /\ currentSelectedColor = "#ffb7b2"
    /\ currentPixels = AllWhite
    /\ titleValue = <<>>
    /\ disabled = FALSE
    /\ pending = <<>>
    /\ outcome = "none"
    /\ edits = 0
    /\ clicks = 0
    /\ localStorage = stored
    /\ albumList = <<>>
    /\ hasNotifiedInvalidPixels = FALSE

NoRate == [called |-> FALSE, success |-> FALSE]
Unread == NonObj("unread")
NoValidation == [valid |-> FALSE, error |-> ""]
NoUpstream == [kind |-> "none", status |-> 0, text |-> ""]
NoResponse ==
    [status |-> 0, hasBody |-> FALSE, body |-> "", headers |-> [none |-> TRUE]]

Init ==
    /\ request \in [method : Methods, pathname : Pathnames,
                    Origin : OriginHeaders, CfConnectingIp : IpHeaders]
    /\ env \in [ALLOWED_ORIGINS : Configs]
    /\ pc = "start"
    /\ origin = <<>>
    /\ ip = <<>>
    /\ allowedOrigins = <<>>
    /\ headers = [none |-> TRUE]
    /\ rate = NoRate
    /\ body = Unread
    /\ validation = NoValidation
    /\ supabaseRes = NoUpstream
    /\ response = NoResponse
    /\ limiterCalls = <<>>
    /\ rpcCalls = <<>>
    /\ stages = <<>>
    /\ SqlInit
    /\ AppInit(<<>>)

\* return r: the handler ends with the Response r
Return(r) == response' = r /\ pc' = "returned"

\* lines 332-342: the request's origin, its rate-limit key, the parsed
\* allow-list and the Origin Policy headers
Start ==
    /\ pc = "start"
    /\ origin' = HeaderOr(request.Origin, <<>>)
    /\ ip' = HeaderOr(request.CfConnectingIp, Unknown)
    /\ allowedOrigins' = parseAllowedOrigins(env.ALLOWED_ORIGINS)
    /\ headers' = corsHeaders(origin', allowedOrigins')
    /\ pc' = "preflight"
    /\ UNCHANGED otherVars
    /\ UNCHANGED <<request, env, rate, body, validation, supabaseRes,
                   response, limiterCalls, rpcCalls, stages>>

\* the preflight answered only for origins that pass enforcement
Preflight_Enforced ==
    /\ pc = "preflight"
    /\ stages' = Append(stages, "preflight")
    /\ IF request.method = "OPTIONS"
       THEN IF originForbidden(origin, allowedOrigins)
            THEN Return(createErrorResponse("Forbidden origin", 403, headers))
            ELSE Return([status |-> 204, hasBody |-> FALSE, body |-> "",
                         headers |-> headers])
       ELSE pc' = "route" /\ UNCHANGED response
    /\ UNCHANGED otherVars
    /\ UNCHANGED <<request, env, origin, ip, allowedOrigins, headers, rate,
                   body, validation, supabaseRes, limiterCalls, rpcCalls>>

\* lines 344-347: the CORS preflight
Preflight ==
    /\ pc = "preflight"
    /\ stages' = Append(stages, "preflight")
    /\ IF request.method = "OPTIONS"
       THEN Return([status |-> 204, hasBody |-> FALSE, body |-> "",
                    headers |-> headers])
       ELSE pc' = "route" /\ UNCHANGED response
    /\ UNCHANGED otherVars
    /\ UNCHANGED <<request, env, origin, ip, allowedOrigins, headers, rate,
                   body, validation, supabaseRes, limiterCalls, rpcCalls>>

\* the route check with origin enforcement moved in front of it
RouteCheck_OriginFirst ==
    /\ pc = "route"
    /\ stages' = Append(stages, "route")
    /\ IF originForbidden(origin, allowedOrigins)
       THEN Return(createErrorResponse("Forbidden origin", 403, headers))
       ELSE IF request.pathname # "/exchange" \/ request.method # "POST"
       THEN Return(createErrorResponse("Not Found", 404, headers))
       ELSE pc' = "origin" /\ UNCHANGED response
    /\ UNCHANGED otherVars
    /\ UNCHANGED <<request, env, origin, ip, allowedOrigins, headers, rate,
                   body, validation, supabaseRes, limiterCalls, rpcCalls>>

\* lines 349-352: only POST /exchange
RouteCheck ==
    /\ pc = "route"
    /\ stages' = Append(stages, "route")
    /\ IF request.pathname # "/exchange" \/ request.method # "POST"
       THEN Return(createErrorResponse("Not Found", 404, headers))
       ELSE pc' = "origin" /\ UNCHANGED response
    /\ UNCHANGED otherVars
    /\ UNCHANGED <<request, env, origin, ip, allowedOrigins, headers, rate,
                   body, validation, supabaseRes, limiterCalls, rpcCalls>>

\* lines 354-357: origin enforcement
OriginCheck ==
    /\ pc = "origin"
    /\ stages' = Append(stages, "origin")
    /\ IF originForbidden(origin, allowedOrigins)
       THEN Return(createErrorResponse("Forbidden origin", 403, headers))
       ELSE pc' = "rate" /\ UNCHANGED response
    /\ UNCHANGED otherVars
    /\ UNCHANGED <<request, env, origin, ip, allowedOrigins, headers, rate,
                   body, validation, supabaseRes, limiterCalls, rpcCalls>>

\* the limiter asked with the sentinel key whatever the client's address
RateLimit_SentinelKey ==
    /\ pc = "rate"
    /\ stages' = Append(stages, "rate")
    /\ limiterCalls' = Append(limiterCalls, Unknown)
    /\ \E success \in BOOLEAN :
        /\ rate' = [called |-> TRUE, success |-> success]
        /\ IF ~success
           THEN Return(createErrorResponse(
                           "Rate limit exceeded. Try again later.", 429,
                           headers))
           ELSE pc' = "parse" /\ UNCHANGED response
    /\ UNCHANGED otherVars
    /\ UNCHANGED <<request, env, origin, ip, allowedOrigins, headers, body,
                   validation, supabaseRes, rpcCalls>>

\* the limiter asked, its decision not acted on
RateLimit_DecisionIgnored ==
    /\ pc = "rate"
    /\ stages' = Append(stages, "rate")
    /\ limiterCalls' = Append(limiterCalls, ip)
    /\ \E success \in BOOLEAN : rate' = [called |-> TRUE, success |-> success]
    /\ pc' = "parse"
    /\ UNCHANGED otherVars
    /\ UNCHANGED <<request, env, origin, ip, allowedOrigins, headers, body,
                   validation, supabaseRes, response, rpcCalls>>

\* lines 359-362: the limiter is asked with the key ip and answers success
\* or failure
RateLimit ==
    /\ pc = "rate"
    /\ stages' = Append(stages, "rate")
    /\ limiterCalls' = Append(limiterCalls, ip)
    /\ \E success \in BOOLEAN :
        /\ rate' = [called |-> TRUE, success |-> success]
        /\ IF ~success
           THEN Return(createErrorResponse(
                           "Rate limit exceeded. Try again later.", 429,
                           headers))
           ELSE pc' = "parse" /\ UNCHANGED response
    /\ UNCHANGED otherVars
    /\ UNCHANGED <<request, env, origin, ip, allowedOrigins, headers, body,
                   validation, supabaseRes, rpcCalls>>

\* lines 364-370: the body is read and parsed
ParseBody ==
    /\ pc = "parse"
    /\ stages' = Append(stages, "parse")
    /\ \E b \in RequestBodies :
        /\ body' = b
        /\ IF b.t = "syntaxerror"
           THEN Return(createErrorResponse("Invalid JSON", 400, headers))
           ELSE pc' = "validate" /\ UNCHANGED response
    /\ UNCHANGED otherVars
    /\ UNCHANGED <<request, env, origin, ip, allowedOrigins, headers, rate,
                   validation, supabaseRes, limiterCalls, rpcCalls>>

\* validation.error || "Invalid input"
ErrorOr(error, fallback) == IF error # "" THEN error ELSE fallback

\* lines 372-376: validation; destructuring a null body throws, and nothing
\* in the handler catches it
Validate ==
    /\ pc = "validate"
    /\ stages' = Append(stages, "validate")
    /\ IF DestructureThrows(body)
       THEN pc' = "threw" /\ UNCHANGED <<validation, response>>
       ELSE /\ validation' = validateInput(body)
            /\ IF ~validation'.valid
               THEN Return(createErrorResponse(
                               ErrorOr(validation'.error, "Invalid input"),
                               400, headers))
               ELSE pc' = "forward" /\ UNCHANGED response
    /\ UNCHANGED otherVars
    /\ UNCHANGED <<request, env, origin, ip, allowedOrigins, headers, rate,
                   body, supabaseRes, limiterCalls, rpcCalls>>

\* the upstream's status and body relayed whatever the status
shapeResponse_RelaysFailure(res, h) ==
    [status |-> res.status, hasBody |-> TRUE, body |-> res.text,
     headers |-> WithContentType(h)]

\* a success always answered 200
shapeResponse_Always200(res, h) ==
    IF ~Ok(res.status)
    THEN createErrorResponse("internal error", 500, h)
    ELSE [status |-> 200, hasBody |-> TRUE, body |-> res.text,
          headers |-> WithContentType(h)]

\* lines 390-404: the response made from an upstream response
shapeResponse(res, h) ==
    IF ~Ok(res.status)
    THEN createErrorResponse("internal error", 500, h)
    ELSE [status |-> res.status, hasBody |-> TRUE, body |-> res.text,
          headers |-> WithContentType(h)]

\* lines 405-408: the response made when the upstream call throws
catchResponse(h) == createErrorResponse("Internal server error", 500, h)

\* body.title || ""
TitleOrEmpty(title) == IF Truthy(title) THEN title.s ELSE <<>>

\* lines 378-408: the upstream call and the response made from it
Forward ==
    /\ pc = "forward"
    /\ stages' = Append(stages, "forward")
    /\ rpcCalls' =
           Append(rpcCalls,
                  callSupabaseRpc(TitleOrEmpty(body.title), body.pixels))
    /\ \E res \in UpstreamOutcomes :
        /\ supabaseRes' = res
        /\ IF res.kind = "throw"
           THEN Return(catchResponse(headers))
           ELSE Return(shapeResponse(res, headers))
    /\ UNCHANGED otherVars
    /\ UNCHANGED <<request, env, origin, ip, allowedOrigins, headers, rate,
                   body, validation, limiterCalls>>

Next ==
    \/ Start
    \/ Preflight
    \/ RouteCheck
    \/ OriginCheck
    \/ RateLimit
    \/ ParseBody
    \/ Validate
    \/ Forward

Spec == Init /\ [][Next]_vars

(***************************************************************************)
(* Vocabulary of the properties, stated on the request, the configuration  *)
(* and the handler's record of what it did, not on the operators above.    *)
(***************************************************************************)
Range(f) == {f[i] : i \in DOMAIN f}

Returned == pc = "returned"

StageOrder ==
    <<"preflight", "route", "origin", "rate", "parse", "validate", "forward">>

\* the first n stages, in order
StagesUpTo(n) == SubSeq(StageOrder, 1, n)

IsSubmissionRoute ==
    request.method = "POST" /\ request.pathname = "/exchange"

\* the request's origin is neither listed in the non-empty allow-list nor
\* covered by a wildcard entry
OriginDisallowed ==
    /\ pc # "start"
    /\ allowedOrigins # <<>>
    /\ origin \notin Range(allowedOrigins)
    /\ Wildcard \notin Range(allowedOrigins)

\* the response carries every Origin Policy header computed at the start
CarriesPolicyHeaders ==
    \A n \in DOMAIN headers :
        n \in DOMAIN response.headers /\ response.headers[n] = headers[n]

\* # followed by exactly six hexadecimal digits
IsHashHex6(v) ==
    /\ v.t = "string"
    /\ Len(v.s) = 7
    /\ v.s[1] = "#"
    /\ \A i \in 2..7 : v.s[i] \in HexDigits

\* w occurs in s as a run of consecutive characters
Occurs(w, s) ==
    \E k \in 0..(Len(s) - Len(w)) : \A i \in 1..Len(w) : s[k + i] = w[i]

\* C1: the upstream RPC is called only for a POST /exchange request that
\* passed origin enforcement, whose limiter decision was success, whose body
\* parsed and for which validateInput returned valid; and every call carries
\* exactly 16 pixels of the form # plus 6 hex digits and a title that is
\* empty or at most 5 characters long with no moderation word in it.
C1_UpstreamOnlyAfterAllGates ==
    rpcCalls # <<>> =>
        /\ Len(rpcCalls) = 1
        /\ IsSubmissionRoute
        /\ ~OriginDisallowed
        /\ limiterCalls # <<>> /\ rate.called /\ rate.success
        /\ body.t \notin {"unread", "syntaxerror"}
        /\ validation.valid
        /\ stages = StageOrder
        /\ \A c \in Range(rpcCalls) :
            /\ c.pixels.t = "array"
            /\ Len(c.pixels.items) = 16
            /\ \A i \in 1..Len(c.pixels.items) : IsHashHex6(c.pixels.items[i])
            /\ c.title = (IF body.title.t = "string" THEN body.title.s ELSE <<>>)
            /\ \/ c.title = <<>>
               \/ /\ Len(c.title) <= 5
                  /\ \A w \in Range(NG_WORDS) : ~Occurs(w, c.title)

\* a submission with a five-character title reached the upstream
C1_Witness ==
    /\ Returned
    /\ Len(rpcCalls) = 1
    /\ Len(rpcCalls[1].title) = 5
    /\ Len(rpcCalls[1].pixels.items) = 16

\* C2 as stated: every request whose origin is disallowed is answered 403
\* with neither the limiter nor the upstream called.
C2_AsStated ==
    (Returned /\ OriginDisallowed) =>
        /\ response.status = 403
        /\ limiterCalls = <<>>
        /\ rpcCalls = <<>>

\* C2 amended: for a request whose origin is disallowed neither the limiter
\* nor the upstream is ever called, and the response is 403 when the request
\* is POST /exchange (204 for a preflight, 404 for any other route).
C2_DisallowedOriginNeverConsultsLimiter ==
    OriginDisallowed =>
        /\ limiterCalls = <<>> /\ ~rate.called
        /\ rpcCalls = <<>>
        /\ "rate" \notin Range(stages) /\ "forward" \notin Range(stages)
        /\ Returned =>
            response.status =
                (IF request.method = "OPTIONS" THEN 204
                 ELSE IF ~IsSubmissionRoute THEN 404
                 ELSE 403)

\* a POST /exchange without an Origin header was answered 403 under a
\* non-empty allow-list
C2_Witness ==
    /\ Returned
    /\ OriginDisallowed
    /\ IsSubmissionRoute
    /\ ~request.Origin.present
    /\ response.status = 403

\* C3: when the limiter reports failure the response is 429 and the body is
\* never read, validation never runs and the upstream is never called.
C3_ThrottledStopsBeforeBody ==
    (rate.called /\ ~rate.success) =>
        /\ Returned
        /\ response.status = 429
        /\ response.body = "{\"error\":\"Rate limit exceeded. Try again later.\"}"
        /\ body.t = "unread"
        /\ validation = NoValidation
        /\ rpcCalls = <<>>
        /\ stages = StagesUpTo(4)

\* the limiter was asked once and refused
C3_Witness ==
    /\ rate.called /\ ~rate.success
    /\ Len(limiterCalls) = 1
    /\ response.status = 429

\* C4: every request ends in a response that carries the Origin Policy
\* headers computed at the start, whichever step ends the pipeline and
\* whatever the body is.
C4_EveryRequestEndsWithPolicyHeaders ==
    /\ pc # "threw"
    /\ Returned => CarriesPolicyHeaders

\* C5: when the upstream answers with a non-success status the caller gets
\* status 500 with body {"error":"internal error"} and the Origin Policy
\* headers: a response fixed by the request alone, the same for every failing
\* upstream status and every upstream body.
C5_UpstreamFailureIsGeneric ==
    (Returned /\ supabaseRes.kind = "response"
              /\ supabaseRes.status \notin 200..299) =>
        /\ response.status = 500
        /\ response.hasBody
        /\ response.body = "{\"error\":\"internal error\"}"
        /\ response.headers =
               [ACAO |-> headers.ACAO, ACAM |-> headers.ACAM,
                ACAH |-> headers.ACAH, ACMA |-> headers.ACMA,
                ContentType |-> "application/json"]

\* the upstream answered 503 with an error text of its own
C5_Witness ==
    /\ Returned
    /\ supabaseRes.kind = "response"
    /\ supabaseRes.status = 503
    /\ supabaseRes.text = "{\"message\":\"relation art_posts does not exist\"}"
    /\ response.status = 500

\* C6: an upstream call that throws gets the same response as an upstream
\* non-success status: status 500 and the one generic message.
C6_TransportFailureSameAsStatusFailure ==
    (Returned /\ supabaseRes.kind = "throw") =>
        /\ response.status = 500
        /\ response.body = "{\"error\":\"internal error\"}"

\* C7: when the upstream answers with a success status the caller gets
\* exactly that status and exactly that body, with the Origin Policy headers
\* of the caller's origin.
C7_SuccessPassesThrough ==
    (Returned /\ supabaseRes.kind = "response"
              /\ supabaseRes.status \in 200..299) =>
        /\ response.status = supabaseRes.status
        /\ response.hasBody
        /\ response.body = supabaseRes.text
        /\ CarriesPolicyHeaders
        /\ response.headers.ACAO =
               (IF origin \in Range(allowedOrigins)
                   \/ Wildcard \in Range(allowedOrigins)
                THEN origin ELSE <<>>)

\* the upstream answered 201 with a post, relayed as it came
C7_Witness ==
    /\ Returned
    /\ supabaseRes.kind = "response"
    /\ supabaseRes.status = 201
    /\ Len(supabaseRes.text) > 4
    /\ response.body = supabaseRes.text

\* the status the stage order gives a returned request: that of the first
\* stage that ends the pipeline, with the stages run up to it
FirstFailingStage ==
    IF request.method = "OPTIONS" THEN [n |-> 1, status |-> {204}]
    ELSE IF ~IsSubmissionRoute THEN [n |-> 2, status |-> {404}]
    ELSE IF OriginDisallowed THEN [n |-> 3, status |-> {403}]
    ELSE IF ~rate.success THEN [n |-> 4, status |-> {429}]
    ELSE IF body.t = "syntaxerror" THEN [n |-> 5, status |-> {400}]
    ELSE IF ~validation.valid THEN [n |-> 6, status |-> {400}]
    ELSE [n |-> 7,
          status |-> IF supabaseRes.kind = "response"
                        /\ supabaseRes.status \in 200..299
                     THEN {supabaseRes.status} ELSE {500}]

\* C8: the stages run in the order preflight, route check, origin
\* enforcement, rate limit, parse, validate, forward, and a returned response
\* is that of the first stage that fails.
C8_StagesInOrderFirstFailureWins ==
    /\ \E n \in 0..Len(StageOrder) : stages = StagesUpTo(n)
    /\ Returned =>
        /\ stages = StagesUpTo(FirstFailingStage.n)
        /\ response.status \in FirstFailingStage.status
        /\ FirstFailingStage.n = 5 => response.body = "{\"error\":\"Invalid JSON\"}"
        /\ FirstFailingStage.n = 6 =>
               response.body = "{\"error\":\"" \o validation.error \o "\"}"

\* a GET to another path from a disallowed origin was answered 404
C8_Witness ==
    /\ Returned
    /\ request.method = "GET"
    /\ request.pathname = "/"
    /\ OriginDisallowed
    /\ response.status = 404

\* C9: a preflight is never blocked: OPTIONS is answered 204 with no body,
\* Access-Control-Allow-Origin being the origin when it is allowed and empty
\* when it is not, with no origin enforcement, no limiter call and no
\* upstream call.
C9_PreflightNeverBlocked ==
    request.method = "OPTIONS" =>
        /\ pc \in {"start", "preflight", "returned"}
        /\ limiterCalls = <<>>
        /\ rpcCalls = <<>>
        /\ "origin" \notin Range(stages)
        /\ Returned =>
            /\ response.status = 204
            /\ ~response.hasBody
            /\ stages = StagesUpTo(1)
            /\ response.headers.ACAO =
                   (IF origin \in Range(allowedOrigins)
                       \/ Wildcard \in Range(allowedOrigins)
                    THEN origin ELSE <<>>)

\* a preflight from a disallowed origin was answered 204 with the header
\* empty
C9_Witness ==
    /\ Returned
    /\ request.method = "OPTIONS"
    /\ OriginDisallowed
    /\ origin # <<>>
    /\ response.status = 204
    /\ response.headers.ACAO = <<>>

\* the raw text of a header or setting, empty when it is absent
Raw(h) == IF h.present THEN h.value ELSE <<>>

\* o is an entry of the comma-separated text cfg: o is not empty, has no
\* blank at either end, and some piece of cfg between two separators (or
\* the ends of cfg) is o with blanks only around it
IsEntry(o, cfg) ==
    /\ o # <<>>
    /\ o[1] \notin WhiteSpace /\ o[Len(o)] \notin WhiteSpace
    /\ \E i \in 1..(Len(cfg) + 1), j \in 0..Len(cfg) :
        /\ i <= j
        /\ i = 1 \/ cfg[i - 1] = ","
        /\ j = Len(cfg) \/ cfg[j + 1] = ","
        /\ \A k \in i..j : cfg[k] # ","
        /\ \E a \in i..j, b \in i..j :
            /\ a <= b
            /\ SubSeq(cfg, a, b) = o
            /\ \A k \in (i..(a - 1)) \cup ((b + 1)..j) : cfg[k] \in WhiteSpace

OriginListed ==
    \/ IsEntry(Raw(request.Origin), Raw(env.ALLOWED_ORIGINS))
    \/ IsEntry(Wildcard, Raw(env.ALLOWED_ORIGINS))

\* C10: on every response Access-Control-Allow-Origin is the request's
\* origin when that origin is an entry of the configured allow-list
\* (comma-separated, trimmed, empty entries dropped) or the allow-list has
\* the wildcard entry, and is empty otherwise; an origin outside the
\* allow-list is never echoed.
C10_AllowOriginOnlyForListedOrigins ==
    Returned =>
        /\ response.headers.ACAO =
               (IF OriginListed THEN Raw(request.Origin) ELSE <<>>)
        /\ (Raw(request.Origin) # <<>> /\ ~OriginListed) =>
               response.headers.ACAO # Raw(request.Origin)

\* an origin listed with a blank before it and an empty entry after it in
\* the configuration was echoed
C10_Witness ==
    /\ Returned
    /\ Raw(request.Origin) = <<"a">>
    /\ Raw(env.ALLOWED_ORIGINS) = <<" ", "a", ",">>
    /\ response.headers.ACAO = <<"a">>

\* the handler has ended, with a response or with an exception
Ended == pc \in {"returned", "threw"}

\* C14 as stated: every execution of the handler calls the limiter exactly
\* once.
C14_AsStated ==
    Ended => Len(limiterCalls) = 1

\* C14 amended: the limiter is called at most once per request: exactly
\* once for a POST /exchange request that passes origin enforcement and not
\* at all for a preflight, another route or a disallowed origin; its key is
\* the client-IP header, or "unknown" when that header is absent.
C14_LimiterAtMostOnceWithIpKey ==
    /\ Len(limiterCalls) <= 1
    /\ Ended =>
        (Len(limiterCalls) = 1 <=> (IsSubmissionRoute /\ ~OriginDisallowed))
    /\ \A i \in 1..Len(limiterCalls) :
        limiterCalls[i] =
            (IF request.CfConnectingIp.present
             THEN request.CfConnectingIp.value
             ELSE <<"u", "n", "k", "n", "o", "w", "n">>)

\* the limiter was asked once with the address of the client-IP header
C14_Witness ==
    /\ Ended
    /\ request.CfConnectingIp.present
    /\ limiterCalls = <<request.CfConnectingIp.value>>
    /\ limiterCalls # <<<<>>>>

\* the request's origin is listed in the allow-list or admitted by a
\* wildcard entry
OriginPermitted ==
    origin \in Range(allowedOrigins) \/ Wildcard \in Range(allowedOrigins)

\* C18: the header computation and the origin enforcement agree.  With a
\* non-empty allow-list a request that reaches origin enforcement is answered
\* 403 exactly when its origin is not permitted, every 403 carries an empty
\* Access-Control-Allow-Origin and every response made after origin
\* enforcement carries the request's origin; with an empty allow-list no
\* response is 403 and every response carries an empty
\* Access-Control-Allow-Origin.
C18_HeaderAndEnforcementAgree ==
    Returned =>
        /\ allowedOrigins # <<>> =>
            /\ response.headers.ACAO = (IF OriginPermitted THEN origin ELSE <<>>)
            /\ "origin" \in Range(stages) =>
                   (response.status = 403 <=> ~OriginPermitted)
            /\ response.status = 403 => response.headers.ACAO = <<>>
            /\ "rate" \in Range(stages) =>
                /\ response.status \in {429, 400, 200, 201, 500}
                /\ response.headers.ACAO = origin
        /\ allowedOrigins = <<>> =>
            /\ response.status # 403
            /\ response.headers.ACAO = <<>>

\* a request admitted by a wildcard entry got past origin enforcement and
\* its response carries its origin
C18_Witness ==
    /\ Returned
    /\ allowedOrigins = <<Wildcard>>
    /\ origin = <<"b">>
    /\ response.status = 429
    /\ response.headers.ACAO = <<"b">>

(***************************************************************************)
(* The Input Validator on its own: validateInput applied to one body.      *)
(* The bodies are every title value with every pixels value.               *)
(***************************************************************************)
\* a word that is no moderation word, next to the moderation words
ValidatorWords == {<<>>, <<"d", "e", "i">>} \cup {NG_WORDS[i] : i \in DOMAIN NG_WORDS}

ValidatorTitles ==
    {Undefined, Num, Null} \cup {Str(t) : t \in TitleTexts(ValidatorWords)}

ValidatorBodies ==
    {NonObj("null"), NonObj("number"), NonObj("string"), NonObj("array")}
    \cup {Obj(t, p) : t \in ValidatorTitles, p \in PixelValues}

InitValidate ==
    /\ request = [method |-> "POST", pathname |-> "/exchange",
                  Origin |-> Absent, CfConnectingIp |-> Absent]
    /\ env = [ALLOWED_ORIGINS |-> Absent]
    /\ pc = "validateInput"
    /\ origin = <<>>
    /\ ip = <<>>
    /\ allowedOrigins = <<>>
    /\ headers = [none |-> TRUE]
    /\ rate = NoRate
    /\ body \in ValidatorBodies
    /\ validation = NoValidation
    /\ supabaseRes = NoUpstream
    /\ response = NoResponse
    /\ limiterCalls = <<>>
    /\ rpcCalls = <<>>
    /\ stages = <<>>
    /\ SqlInit
    /\ AppInit(<<>>)

\* lines 242-281: one call of validateInput; it returns a result, or throws
\* when the body cannot be destructured
CallValidateInput ==
    /\ pc = "validateInput"
    /\ IF DestructureThrows(body)
       THEN pc' = "threw" /\ UNCHANGED validation
       ELSE pc' = "validated" /\ validation' = validateInput(body)
    /\ UNCHANGED otherVars
    /\ UNCHANGED <<request, env, origin, ip, allowedOrigins, headers, rate,
                   body, supabaseRes, response, limiterCalls, rpcCalls,
                   stages>>

NextValidate == CallValidateInput

SpecValidate == InitValidate /\ [][NextValidate]_vars

\* the six rules, each on its own: TRUE when the body breaks the rule
BreaksTitleType == body.title.t \notin {"undefined", "string"}
BreaksTitleLength == body.title.t = "string" /\ Len(body.title.s) > 5
BreaksModeration ==
    /\ body.title.t = "string"
    /\ \E w \in Range(NG_WORDS) : Occurs(w, body.title.s)
BreaksPixelsArray == body.pixels.t # "array"
BreaksPixelsCount == body.pixels.t # "array" \/ Len(body.pixels.items) # 16
BreaksPixelFormat ==
    \/ body.pixels.t # "array"
    \/ \E i \in 1..Len(body.pixels.items) : ~IsHashHex6(body.pixels.items[i])

\* the reason of the first broken rule in the order of the rules, "" when
\* no rule is broken
FirstBrokenRule ==
    IF BreaksTitleType THEN "title must be a string"
    ELSE IF BreaksTitleLength THEN "title max 5 chars"
    ELSE IF BreaksModeration THEN "inappropriate title"
    ELSE IF BreaksPixelsArray THEN "pixels must be an array"
    ELSE IF BreaksPixelsCount THEN "pixels must have 16 items"
    ELSE IF BreaksPixelFormat THEN "invalid pixel color format"
    ELSE ""

Validated == pc = "validated"

\* C11: validateInput returns valid exactly when none of the six rules is
\* broken, and otherwise the single reason of the first broken rule in the
\* order title type, title length, moderation word, pixels is an array,
\* pixels count, pixel colour format.
C11_FirstFailureWins ==
    Validated =>
        /\ validation.valid <=> FirstBrokenRule = ""
        /\ validation.error = FirstBrokenRule

\* a title that is too long and holds a moderation word, with too few
\* pixels: three rules broken, one reason returned
C11_Witness ==
    /\ Validated
    /\ BreaksTitleLength /\ BreaksModeration /\ BreaksPixelsCount
    /\ ~BreaksPixelsArray
    /\ validation = [valid |-> FALSE, error |-> "title max 5 chars"]

\* C12 as stated: an array of pixels whose length is not 16 is rejected with
\* the count reason whatever the title.
C12_AsStated ==
    (Validated /\ body.pixels.t = "array" /\ Len(body.pixels.items) # 16) =>
        validation = [valid |-> FALSE, error |-> "pixels must have 16 items"]

\* C12 amended: an array of pixels whose length is not 16 is always
\* rejected; the reason is the count reason when the title breaks no title
\* rule, and the reason of the first broken title rule otherwise.
C12_WrongCountRejected ==
    (Validated /\ body.pixels.t = "array" /\ Len(body.pixels.items) # 16) =>
        /\ ~validation.valid
        /\ validation.error =
               (IF BreaksTitleType THEN "title must be a string"
                ELSE IF BreaksTitleLength THEN "title max 5 chars"
                ELSE IF BreaksModeration THEN "inappropriate title"
                ELSE "pixels must have 16 items")

\* seventeen pixels under a good title were rejected for their count
C12_Witness ==
    /\ Validated
    /\ body.pixels.t = "array" /\ Len(body.pixels.items) = 17
    /\ body.title.t = "string" /\ Len(body.title.s) = 5
    /\ validation.error = "pixels must have 16 items"

\* C13 as stated: every title that holds a moderation word is rejected with
\* the moderation reason, and a title without one and within the length
\* limit passes the moderation check.
C13_AsStated ==
    (Validated /\ body.title.t = "string") =>
        /\ BreaksModeration => validation.error = "inappropriate title"
        /\ (~BreaksModeration /\ Len(body.title.s) <= 5) =>
               validation.error # "inappropriate title"

\* C13 amended: a title of at most 5 characters that holds a moderation word
\* is rejected with the moderation reason; a longer title is rejected with
\* the length reason whether or not it holds one; a title without one and
\* within the length limit passes the title rules.
C13_ModerationWithinLengthLimit ==
    (Validated /\ body.title.t = "string") =>
        /\ (BreaksModeration /\ Len(body.title.s) <= 5) =>
               validation = [valid |-> FALSE, error |-> "inappropriate title"]
        /\ Len(body.title.s) > 5 =>
               validation = [valid |-> FALSE, error |-> "title max 5 chars"]
        /\ (~BreaksModeration /\ Len(body.title.s) <= 5) =>
               validation.error \notin
                   {"inappropriate title", "title max 5 chars",
                    "title must be a string"}

\* a five-character title with a moderation word in its middle was rejected
\* for it
C13_Witness ==
    /\ Validated
    /\ Len(body.title.s) = 5
    /\ SubSeq(body.title.s, 2, 4) = <<"d", "i", "e">>
    /\ validation.error = "inappropriate title"

(***************************************************************************)
(* The upstream RPC exchange_art (exchange_art.sql).  Each call runs in a  *)
(* transaction of its own at READ COMMITTED: a statement sees the rows     *)
(* committed before it, a row lock is held until the transaction ends,     *)
(* and the call's insert and update become visible to others on commit.    *)
(***************************************************************************)
\* no request in the proxy
ProxyIdle ==
    /\ request = [method |-> "POST", pathname |-> "/exchange",
                  Origin |-> Absent, CfConnectingIp |-> Absent]
    /\ env = [ALLOWED_ORIGINS |-> Absent]
    /\ pc = "idle"
    /\ origin = <<>>
    /\ ip = <<>>
    /\ allowedOrigins = <<>>
    /\ headers = [none |-> TRUE]
    /\ rate = NoRate
    /\ body = Unread
    /\ validation = NoValidation
    /\ supabaseRes = NoUpstream
    /\ response = NoResponse
    /\ limiterCalls = <<>>
    /\ rpcCalls = <<>>
    /\ stages = <<>>

\* the arguments of a call: the caller's drawing, or one with a NULL title
Submissions(c) ==
    {IF c % 2 = 1
     THEN [new_title |-> "neko", new_pixels |-> "[\"#ffffff\"]"]
     ELSE [new_title |-> "inu", new_pixels |-> "[\"#ffb7b2\"]"],
     [new_title |-> SqlNull, new_pixels |-> "[\"#000000\"]"]}

InitSql == ProxyIdle /\ SqlInit /\ AppInit(<<>>)

Locked(id) == \E l \in rowLocks : l.id = id
InProgress(c) == calls[c].pc \in {"selected", "inserted", "returned"}

\* the committed rows a select ... where exchanged = false ... for update
\* skip locked can take: unexchanged and not locked
Selectable == {i \in 1..Len(art_posts) :
                   ~art_posts[i].exchanged /\ ~Locked(art_posts[i].id)}

\* found_post is not null: true of a record when none of its fields is NULL
RecordIsNotNull(r) ==
    r.id # 0 /\ r.title # SqlNull /\ r.pixels # SqlNull /\ r.created_at # 0

\* select id, title, pixels, created_at into found_post
ProjectRow(row) ==
    [id |-> row.id, title |-> row.title, pixels |-> row.pixels,
     created_at |-> row.created_at]

\* a call begun with the arguments sub, its select having taken the row at
\* index i of the table (0: no row)
Selected(c, sub, i) ==
    [calls[c] EXCEPT
        !.pc = "selected",
        !.new_title = sub.new_title,
        !.new_pixels = sub.new_pixels,
        !.started = clock,
        !.available = {art_posts[k].id : k \in Selectable},
        !.found_post = IF i = 0 THEN NullRecord ELSE ProjectRow(art_posts[i])]

\* the select taking any unexchanged row, locked or not, and locking nothing
SelectForUpdate_NoLock(c) ==
    /\ calls[c].pc = "idle"
    /\ \E sub \in Submissions(c) :
        LET unexchanged == {i \in 1..Len(art_posts) : ~art_posts[i].exchanged}
        IN  IF unexchanged = {}
            THEN calls' = [calls EXCEPT ![c] = Selected(c, sub, 0)]
            ELSE \E i \in unexchanged :
                     calls' = [calls EXCEPT ![c] = Selected(c, sub, i)]
    /\ clock' = clock + 1
    /\ overlapped' = (overlapped \/ \E d \in Callers \ {c} : InProgress(d))
    /\ UNCHANGED <<art_posts, rowLocks, nextId>>
    /\ UNCHANGED nonSqlVars

\* lines 35-42: the call begins; one unexchanged, unlocked row is taken at
\* random and locked, or none is found
SelectForUpdate(c) ==
    /\ calls[c].pc = "idle"
    /\ \E sub \in Submissions(c) :
        IF Selectable = {}
        THEN /\ calls' = [calls EXCEPT ![c] = Selected(c, sub, 0)]
             /\ UNCHANGED rowLocks
        ELSE \E i \in Selectable :
             /\ calls' = [calls EXCEPT ![c] = Selected(c, sub, i)]
             /\ rowLocks' = rowLocks \cup {[id |-> art_posts[i].id, by |-> c]}
    /\ clock' = clock + 1
    /\ overlapped' = (overlapped \/ \E d \in Callers \ {c} : InProgress(d))
    /\ UNCHANGED <<art_posts, nextId>>
    /\ UNCHANGED nonSqlVars

\* lines 44-47: the caller's post is inserted; a NULL title or pixels breaks
\* the not null constraint and the transaction is rolled back
InsertPost(c) ==
    /\ calls[c].pc = "selected"
    /\ IF calls[c].new_title = SqlNull \/ calls[c].new_pixels = SqlNull
       THEN /\ calls' = [calls EXCEPT ![c].pc = "aborted"]
            /\ rowLocks' = {l \in rowLocks : l.by # c}
            /\ UNCHANGED nextId
       ELSE /\ calls' = [calls EXCEPT ![c].pc = "inserted",
                                      ![c].new_post_id = nextId]
            /\ nextId' = nextId + 1
            /\ UNCHANGED rowLocks
    /\ UNCHANGED <<art_posts, clock, overlapped>>
    /\ UNCHANGED nonSqlVars

\* jsonb_build_object('id', ..., 'title', ..., 'pixels', ..., 'created_at', ...)
JsonbBuildObject(r) ==
    [isNull |-> FALSE,
     obj |-> [id |-> r.id, title |-> r.title, pixels |-> r.pixels,
              created_at |-> r.created_at]]

\* the found row returned without being marked exchanged
UpdateAndReturn_NoUpdate(c) ==
    /\ calls[c].pc = "inserted"
    /\ IF RecordIsNotNull(calls[c].found_post)
       THEN calls' = [calls EXCEPT
                         ![c].pc = "returned",
                         ![c].result = JsonbBuildObject(calls[c].found_post)]
       ELSE calls' = [calls EXCEPT ![c].pc = "returned",
                                   ![c].result = NullResult]
    /\ UNCHANGED <<art_posts, rowLocks, nextId, clock, overlapped>>
    /\ UNCHANGED nonSqlVars

\* lines 49-63: the found row is marked exchanged and returned, or null is
\* returned
UpdateAndReturn(c) ==
    /\ calls[c].pc = "inserted"
    /\ IF RecordIsNotNull(calls[c].found_post)
       THEN calls' = [calls EXCEPT
                         ![c].pc = "returned",
                         ![c].updated = calls[c].found_post.id,
                         ![c].result = JsonbBuildObject(calls[c].found_post)]
       ELSE calls' = [calls EXCEPT ![c].pc = "returned",
                                   ![c].result = NullResult]
    /\ UNCHANGED <<art_posts, rowLocks, nextId, clock, overlapped>>
    /\ UNCHANGED nonSqlVars

\* the row a call inserts: lines 45-46 and the column defaults of lines 9-13
NewPost(c) ==
    [id |-> calls[c].new_post_id,
     title |-> calls[c].new_title,
     pixels |-> calls[c].new_pixels,
     exchanged |-> FALSE,
     created_at |-> calls[c].started]

\* the table once the call's update and insert are committed
Committed(c) ==
    Append([i \in 1..Len(art_posts) |->
               IF art_posts[i].id = calls[c].updated
               THEN [art_posts[i] EXCEPT !.exchanged = TRUE]
               ELSE art_posts[i]],
           NewPost(c))

\* a commit that inserts the caller's post already marked exchanged
Commit_NewPostExchanged(c) ==
    /\ calls[c].pc = "returned"
    /\ art_posts' = [i \in 1..(Len(art_posts) + 1) |->
                        [Committed(c)[i] EXCEPT
                            !.exchanged = (@ \/ i = Len(art_posts) + 1)]]
    /\ rowLocks' = {l \in rowLocks : l.by # c}
    /\ calls' = [calls EXCEPT ![c].pc = "committed"]
    /\ UNCHANGED <<nextId, clock, overlapped>>
    /\ UNCHANGED nonSqlVars

\* the transaction commits: its writes become visible, its locks are
\* released
Commit(c) ==
    /\ calls[c].pc = "returned"
    /\ art_posts' = Committed(c)
    /\ rowLocks' = {l \in rowLocks : l.by # c}
    /\ calls' = [calls EXCEPT ![c].pc = "committed"]
    /\ UNCHANGED <<nextId, clock, overlapped>>
    /\ UNCHANGED nonSqlVars

NextSql ==
    \E c \in Callers :
        \/ SelectForUpdate(c)
        \/ InsertPost(c)
        \/ UpdateAndReturn(c)
        \/ Commit(c)

SpecSql == InitSql /\ [][NextSql]_vars

\* the call has returned its result (its transaction may still be open)
HasReturned(c) == calls[c].pc \in {"returned", "committed"}
HasCommitted(c) == calls[c].pc = "committed"
ReturnedPost(c) == HasReturned(c) /\ ~calls[c].result.isNull

RowsWithId(id) == {i \in 1..Len(art_posts) : art_posts[i].id = id}
Waiting == {i \in 1..Len(art_posts) : ~art_posts[i].exchanged}

\* C15: under every interleaving a waiting post is handed out at most once:
\* no post is returned to two callers, a returned post was unexchanged and
\* unlocked when it was selected, it is marked exchanged by the transaction
\* that returns it, and no call returns the post it inserts.
C15_PostHandedOutAtMostOnce ==
    /\ \A c \in Callers, d \in Callers :
        (c # d /\ ReturnedPost(c) /\ ReturnedPost(d)) =>
            calls[c].result.obj.id # calls[d].result.obj.id
    /\ \A c \in Callers :
        ReturnedPost(c) =>
            /\ calls[c].result.obj.id \in calls[c].available
            /\ calls[c].updated = calls[c].result.obj.id
            /\ calls[c].result.obj.id # calls[c].new_post_id
            /\ HasCommitted(c) =>
                   \A i \in RowsWithId(calls[c].result.obj.id) :
                       art_posts[i].exchanged
            /\ ~HasCommitted(c) =>
                   [id |-> calls[c].result.obj.id, by |-> c] \in rowLocks
    /\ \A i \in 1..Len(art_posts) :
        art_posts[i].exchanged =>
            \E c \in Callers :
                HasCommitted(c) /\ ReturnedPost(c)
                /\ calls[c].result.obj.id = art_posts[i].id

\* two calls ran their selects while the only waiting post was there: one
\* took it, the other skipped the locked row and returned null
C15_Witness ==
    \E c \in Callers, d \in Callers :
        /\ c # d
        /\ HasCommitted(c) /\ HasCommitted(d)
        /\ ReturnedPost(c)
        /\ calls[d].result.isNull
        /\ calls[d].available = {}
        /\ calls[d].started > calls[c].started
        /\ Len(art_posts) = 3

\* C16: every completed call persists exactly one new post, unexchanged
\* until another call takes it, and returns null exactly when no unexchanged
\* unlocked post was there at its select; otherwise it returns the id, title,
\* pixels and created_at of the selected post as they are stored.
C16_OnePostPersistedResultFromSelection ==
    /\ Len(art_posts) = Cardinality({c \in Callers : HasCommitted(c)})
    /\ \A c \in Callers :
        HasCommitted(c) =>
            /\ Cardinality(RowsWithId(calls[c].new_post_id)) = 1
            /\ \A i \in RowsWithId(calls[c].new_post_id) :
                /\ art_posts[i].title = calls[c].new_title
                /\ art_posts[i].pixels = calls[c].new_pixels
                /\ art_posts[i].exchanged =>
                       \E d \in Callers \ {c} :
                           /\ HasCommitted(d)
                           /\ calls[d].result.obj.id = art_posts[i].id
                           /\ calls[d].started > calls[c].started
    /\ \A c \in Callers :
        HasReturned(c) =>
            /\ calls[c].result.isNull <=> calls[c].available = {}
            /\ ~calls[c].result.isNull =>
                \E i \in 1..Len(art_posts) :
                    /\ art_posts[i].id \in calls[c].available
                    /\ calls[c].result.obj =
                           [id |-> art_posts[i].id,
                            title |-> art_posts[i].title,
                            pixels |-> art_posts[i].pixels,
                            created_at |-> art_posts[i].created_at]

\* a call that found a partner committed: its own post waits and it returned
\* the partner's
C16_Witness ==
    \E c \in Callers :
        /\ HasCommitted(c)
        /\ ~calls[c].result.isNull
        /\ calls[c].result.obj.title = "neko"
        /\ \E i \in RowsWithId(calls[c].new_post_id) :
               ~art_posts[i].exchanged /\ art_posts[i].title = "inu"

\* the state part of C19: once a call has committed at least one post
\* waits; when the calls ran one at a time, exactly one post waits whenever
\* no call is running and every committed call but the first returned a post
C19_State ==
    /\ Len(art_posts) > 0 => Cardinality(Waiting) >= 1
    /\ ~overlapped =>
        /\ ((\A c \in Callers : ~InProgress(c)) /\ Len(art_posts) > 0) =>
               Cardinality(Waiting) = 1
        /\ \A c \in Callers :
            HasCommitted(c) =>
                (calls[c].result.isNull <=>
                    \A d \in Callers \ {c} :
                        HasCommitted(d) => calls[d].started > calls[c].started)

\* the step part of C19: rows stay, the exchanged flag goes from false to
\* true only, a step adds at most one post and consumes at most one, and
\* the number of waiting posts does not decrease
C19_Step ==
    /\ Len(art_posts') >= Len(art_posts)
    /\ Len(art_posts') <= Len(art_posts) + 1
    /\ \A i \in 1..Len(art_posts) :
        /\ art_posts'[i].id = art_posts[i].id
        /\ art_posts[i].exchanged => art_posts'[i].exchanged
    /\ Len(art_posts') = Len(art_posts) => art_posts' = art_posts
    /\ Len(art_posts') = Len(art_posts) + 1 =>
        /\ ~art_posts'[Len(art_posts')].exchanged
        /\ Cardinality({i \in 1..Len(art_posts) :
               ~art_posts[i].exchanged /\ art_posts'[i].exchanged}) <= 1
    /\ Cardinality({i \in 1..Len(art_posts') : ~art_posts'[i].exchanged})
           >= Cardinality(Waiting)

\* C19: the exchanged flag only ever changes from false to true, each
\* committed call adds one unexchanged post and consumes at most one, so the
\* number of unexchanged posts never decreases and is at least 1 once a call
\* has committed; when the calls run one at a time from an empty table one
\* post waits after every call and every call but the first returns a post.
C19_WaitingPostsNeverDecrease == [][C19_Step]_vars /\ []C19_State

\* three calls ran one at a time: one post waits and two are exchanged
C19_Witness ==
    /\ ~overlapped
    /\ \A c \in Callers : HasCommitted(c)
    /\ Len(art_posts) = 3
    /\ Cardinality(Waiting) = 1

(***************************************************************************)
(* The browser client (app.js): loading the word list and the album at     *)
(* DOMContentLoaded, drawing, and the click handler of the exchange        *)
(* button.                                                                 *)
(***************************************************************************)
\* what a server may send for ./ng_words.csv: nothing, the word list, an
\* error page of two lines
CsvBodies ==
    {<<>>,
     <<"w", "o", "r", "d", "\n", "d", "i", "e", "\n">>,
     <<"4", "0", "4", "\n", "N", "o", "t", " ", "F", "o", "u", "n", "d", "\n">>}

LoadStatuses == {200, 404}
ExchangeStatuses == {200, 429, 500}

\* response.ok
IsOk(status) == status \in 200..299

Digits == {"0", "1", "2", "3", "4", "5", "6", "7", "8", "9"}

\* the index after the run of digits that starts at i
RECURSIVE DigitsEnd(_, _)
DigitsEnd(s, i) ==
    IF i <= Len(s) /\ s[i] \in Digits THEN DigitsEnd(s, i + 1) ELSE i

\* the index of the first double quote at or after i, 0 when there is none
RECURSIVE QuoteAt(_, _)
QuoteAt(s, i) ==
    IF i > Len(s) THEN 0
    ELSE IF s[i] = "\"" THEN i
    ELSE QuoteAt(s, i + 1)

SyntaxError == [ok |-> FALSE, value |-> Undefined, next |-> 0]
Parsed(value, next) == [ok |-> TRUE, value |-> value, next |-> next]

\* a JSON string, null or non-negative integer starting at i
ParseScalar(s, i) ==
    IF i > Len(s) THEN SyntaxError
    ELSE IF s[i] = "\""
    THEN LET j == QuoteAt(s, i + 1)
         IN  IF j = 0 THEN SyntaxError
             ELSE Parsed(Str(SubSeq(s, i + 1, j - 1)), j + 1)
    ELSE IF i + 3 <= Len(s) /\ SubSeq(s, i, i + 3) = <<"n", "u", "l", "l">>
    THEN Parsed(Null, i + 4)
    ELSE IF s[i] = "0" THEN Parsed(Num, i + 1)
    ELSE IF s[i] \in Digits THEN Parsed(Num, DigitsEnd(s, i))
    ELSE SyntaxError

\* the items of a JSON array from i on, up to the closing bracket
RECURSIVE ParseItems(_, _, _)
ParseItems(s, i, acc) ==
    LET item == ParseScalar(s, i)
    IN  IF ~item.ok \/ item.next > Len(s) THEN SyntaxError
        ELSE IF s[item.next] = ","
        THEN ParseItems(s, item.next + 1, Append(acc, item.value))
        ELSE IF s[item.next] = "]"
        THEN Parsed(Arr(Append(acc, item.value)), item.next + 1)
        ELSE SyntaxError

\* JSON.parse, on texts without white space, escapes or nesting: a scalar
\* or an array of scalars; anything left over is a syntax error
JsonParse(s) ==
    LET r == IF s # <<>> /\ s[1] = "["
             THEN IF Len(s) >= 2 /\ s[2] = "]"
                  THEN Parsed(Arr(<<>>), 3)
                  ELSE ParseItems(s, 2, <<>>)
             ELSE ParseScalar(s, 1)
    IN  IF r.ok /\ r.next = Len(s) + 1 THEN r ELSE SyntaxError

FallbackColor == <<"#", "c", "c", "c", "c", "c", "c">>
NullPixels == NotArr("null")

\* an array of any length taken for pixel data
parseAndSanitizePixels_AnyLength(rawPixels) ==
    LET parsed == IF rawPixels.t = "string" THEN JsonParse(rawPixels.s)
                  ELSE Parsed(rawPixels, 0)
    IN  IF ~parsed.ok THEN NullPixels
        ELSE IF parsed.value.t # "array" THEN NullPixels
        ELSE Arr([i \in 1..Len(parsed.value.items) |->
                     LET color == parsed.value.items[i]
                     IN  IF color.t = "string" /\ colorRegexTest(color.s)
                         THEN color ELSE Str(FallbackColor)])

\* lines 55-78: text is parsed as JSON; null unless the data is an array of
\* 16 items; every item that is not a colour string becomes #cccccc
parseAndSanitizePixels(rawPixels) ==
    LET parsed == IF rawPixels.t = "string" THEN JsonParse(rawPixels.s)
                  ELSE Parsed(rawPixels, 0)
    IN  IF ~parsed.ok THEN NullPixels
        ELSE IF parsed.value.t # "array"
                \/ Len(parsed.value.items) # CanvasSize
        THEN NullPixels
        ELSE Arr([i \in 1..Len(parsed.value.items) |->
                     LET color == parsed.value.items[i]
                     IN  IF color.t = "string" /\ colorRegexTest(color.s)
                         THEN color ELSE Str(FallbackColor)])

\* pixel data: 16 colours; 16 items of which the first is not a colour and
\* the last is a number; one item short
Colours16 == Rep(Str(GoodColor), CanvasSize)
Items16 ==
    [i \in 1..CanvasSize |->
        IF i = 1 THEN Str(<<"r", "e", "d">>)
        ELSE IF i = CanvasSize THEN Num
        ELSE Str(GoodColor)]
Items16Text ==
    <<"[">> \o JoinQuoted(SubSeq(Items16, 1, CanvasSize - 1))
    \o <<",", "5", "]">>
OneShort == Rep(Str(GoodColor), CanvasSize - 1)
\* JSON text cut off after its first item
CutOffText == <<"[", "\"">> \o GoodColor \o <<"\"">>

\* the posts a response may carry: exchange_art returns pixels as text
ResultPosts ==
    {[id |-> 7, pixels |-> Str(JsonStringifyArray(Colours16))],
     [id |-> 8, pixels |-> Str(Items16Text)],
     [id |-> 9, pixels |-> Str(JsonStringifyArray(OneShort))],
     [id |-> 10, pixels |-> Str(CutOffText)]}

\* what localStorage holds when the page opens: nothing, or posts stored by
\* earlier visits, with pixels as arrays or as text
StoredAlbums ==
    {<<>>,
     <<[id |-> 2, pixels |-> Str(CutOffText)],
       [id |-> 1, pixels |-> Arr(Items16)]>>}

Colors == {"#ffb7b2", White}
PixelIndexes == {0, CanvasSize - 1}
TitleInputs ==
    {<<>>, <<" ">>, <<"n", "e", "k", "o">>, <<"d", "i", "e">>}

Ids(posts) == [i \in 1..Len(posts) |-> posts[i].id]
Usable(post) == parseAndSanitizePixels(post.pixels) # NullPixels

\* lines 87-94
removeFromStorage(posts, targetPost) ==
    SelectSeq(posts, LAMBDA p : p.id # targetPost.id)

RECURSIVE RemoveAll(_, _)
RemoveAll(posts, targets) ==
    IF targets = <<>> THEN posts
    ELSE RemoveAll(removeFromStorage(posts, Head(targets)), Tail(targets))

\* lines 106-114 with addToAlbum(post, false): every stored post with usable
\* pixel data is shown, in the stored order; the others are removed from
\* storage
loadAlbumFromStorage ==
    /\ albumLoaded' = TRUE
    /\ albumList' = Ids(SelectSeq(localStorage, Usable)) \o albumList
    /\ localStorage' =
           RemoveAll(localStorage,
                     SelectSeq(localStorage, LAMBDA p : ~Usable(p)))

\* line 240: the handler starts and loadNgWords sends its fetch
DOMContentLoaded ==
    /\ ngLoad.pc = "initial"
    /\ ngLoad' = [pc |-> "fetch", kind |-> "none", status |-> 0]
    /\ UNCHANGED <<clientNgWords, warnings, albumLoaded, localStorage,
                   albumList>>
    /\ UNCHANGED <<currentSelectedColor, currentPixels, titleValue, disabled,
                   pending, outcome, edits, clicks,
                   hasNotifiedInvalidPixels>>
    /\ UNCHANGED <<proxyVars, sqlVars>>

\* lines 11-14 and 242: the catch block of loadNgWords, then the album
LoadFailed(kind, status) ==
    /\ warnings' = warnings + 1
    /\ clientNgWords' = <<>>
    /\ ngLoad' = [pc |-> "done", kind |-> kind, status |-> status]
    /\ loadAlbumFromStorage

\* line 6: the fetch of ./ng_words.csv settles; it rejects, or it resolves
\* with a response of any status
FetchNgWordsSettles ==
    /\ ngLoad.pc = "fetch"
    /\ \/ LoadFailed("rejected", 0)
       \/ \E status \in LoadStatuses :
           /\ ngLoad' = [pc |-> "text", kind |-> "response",
                         status |-> status]
           /\ UNCHANGED <<clientNgWords, warnings, albumLoaded, localStorage,
                          albumList>>
    /\ UNCHANGED <<currentSelectedColor, currentPixels, titleValue, disabled,
                   pending, outcome, edits, clicks,
                   hasNotifiedInvalidPixels>>
    /\ UNCHANGED <<proxyVars, sqlVars>>

\* lines 7-10 and 242: response.text() settles; the body is split into lines
\* as parseNgWordsCsv does (the same code), then the album is loaded
TextNgWordsSettles ==
    /\ ngLoad.pc = "text"
    /\ \/ LoadFailed("unreadable", ngLoad.status)
       \/ \E csvText \in CsvBodies :
           /\ clientNgWords' = parseNgWordsCsv(csvText)
           /\ ngLoad' = [ngLoad EXCEPT !.pc = "done"]
           /\ loadAlbumFromStorage
           /\ UNCHANGED warnings
    /\ UNCHANGED <<currentSelectedColor, currentPixels, titleValue, disabled,
                   pending, outcome, edits, clicks,
                   hasNotifiedInvalidPixels>>
    /\ UNCHANGED <<proxyVars, sqlVars>>

\* the page takes the user's input once its handlers are attached and
\* DOMContentLoaded was dispatched
Interactive == ngLoad.pc # "initial"

\* lines 153-157
ClickPixel(index) ==
    /\ Interactive
    /\ edits < MaxEdits
    /\ currentPixels' = [currentPixels EXCEPT ![index] = currentSelectedColor]
    /\ edits' = edits + 1
    /\ UNCHANGED <<currentSelectedColor, titleValue, disabled, pending,
                   outcome, clicks, hasNotifiedInvalidPixels>>
    /\ UNCHANGED <<clientNgWords, ngLoad, warnings, albumLoaded,
                   localStorage, albumList>>
    /\ UNCHANGED <<proxyVars, sqlVars>>

\* lines 144-147
PickColor(color) ==
    /\ Interactive
    /\ edits < MaxEdits
    /\ color # currentSelectedColor
    /\ currentSelectedColor' = color
    /\ edits' = edits + 1
    /\ UNCHANGED <<currentPixels, titleValue, disabled, pending, outcome,
                   clicks, hasNotifiedInvalidPixels>>
    /\ UNCHANGED <<clientNgWords, ngLoad, warnings, albumLoaded,
                   localStorage, albumList>>
    /\ UNCHANGED <<proxyVars, sqlVars>>

\* the user edits the title input
TypeTitle(text) ==
    /\ Interactive
    /\ edits < MaxEdits
    /\ text # titleValue
    /\ titleValue' = text
    /\ edits' = edits + 1
    /\ UNCHANGED <<currentSelectedColor, currentPixels, disabled, pending,
                   outcome, clicks, hasNotifiedInvalidPixels>>
    /\ UNCHANGED <<clientNgWords, ngLoad, warnings, albumLoaded,
                   localStorage, albumList>>
    /\ UNCHANGED <<proxyVars, sqlVars>>

isCanvasWhite == \A i \in DOMAIN currentPixels : currentPixels[i] = White
isTitleEmpty == titleValue = <<>> \/ Trim(titleValue) = <<>>
titleText == IF titleValue = <<>> THEN DefaultTitle ELSE titleValue
HasNgWord ==
    \E i \in 1..Len(clientNgWords) : Includes(titleText, clientNgWords[i])

AwaitingFetch == [stage |-> "fetch", status |-> 0]

\* the click handler leaving the button enabled while it waits
ExchangeClick_NoDisable ==
    /\ Interactive
    /\ ~disabled
    /\ clicks < MaxClicks
    /\ clicks' = clicks + 1
    /\ IF isCanvasWhite /\ isTitleEmpty
       THEN outcome' = "blocked_empty" /\ UNCHANGED pending
       ELSE IF HasNgWord
       THEN outcome' = "blocked_word" /\ UNCHANGED pending
       ELSE /\ pending' = Append(pending, AwaitingFetch)
            /\ outcome' = "sending"
    /\ UNCHANGED <<currentSelectedColor, currentPixels, titleValue, edits,
                   disabled, hasNotifiedInvalidPixels>>
    /\ UNCHANGED <<clientNgWords, ngLoad, warnings, albumLoaded,
                   localStorage, albumList>>
    /\ UNCHANGED <<proxyVars, sqlVars>>

\* lines 250-283: a click on the button, which takes none while disabled;
\* the handler returns early on an empty drawing or a listed word, otherwise
\* disables the button and sends the POST
ExchangeClick ==
    /\ Interactive
    /\ ~disabled
    /\ clicks < MaxClicks
    /\ clicks' = clicks + 1
    /\ IF isCanvasWhite /\ isTitleEmpty
       THEN outcome' = "blocked_empty" /\ UNCHANGED <<disabled, pending>>
       ELSE IF HasNgWord
       THEN outcome' = "blocked_word" /\ UNCHANGED <<disabled, pending>>
       ELSE /\ disabled' = TRUE
            /\ pending' = Append(pending, AwaitingFetch)
            /\ outcome' = "sending"
    /\ UNCHANGED <<currentSelectedColor, currentPixels, titleValue, edits,
                   hasNotifiedInvalidPixels>>
    /\ UNCHANGED <<clientNgWords, ngLoad, warnings, albumLoaded,
                   localStorage, albumList>>
    /\ UNCHANGED <<proxyVars, sqlVars>>

Without(list, k) == SubSeq(list, 1, k - 1) \o SubSeq(list, k + 1, Len(list))

\* lines 303-314: the catch block reports the error and the finally block
\* enables the button; canvas and title are not touched
Failed(k, error) ==
    /\ outcome' = error
    /\ disabled' = FALSE
    /\ pending' = Without(pending, k)
    /\ UNCHANGED <<currentPixels, titleValue>>

\* lines 96-104, 299-301, 311-314: the canvas and the title are reset and the
\* finally block enables the button
Succeeded(k, result) ==
    /\ outcome' = result
    /\ currentPixels' = AllWhite
    /\ titleValue' = <<>>
    /\ disabled' = FALSE
    /\ pending' = Without(pending, k)

\* lines 274-288: the POST settles: fetch rejects, or resolves with a
\* response whose body the handler goes on to read
ExchangeFetchSettles(k) ==
    /\ k \in 1..Len(pending)
    /\ pending[k].stage = "fetch"
    /\ \/ Failed(k, "network_error")
       \/ \E status \in ExchangeStatuses :
           /\ pending' = [pending EXCEPT ![k] =
                             [stage |-> IF IsOk(status) THEN "json"
                                        ELSE "errorJson",
                              status |-> status]]
           /\ UNCHANGED <<outcome, disabled, currentPixels, titleValue>>
    /\ UNCHANGED <<currentSelectedColor, edits, clicks,
                   hasNotifiedInvalidPixels>>
    /\ UNCHANGED <<clientNgWords, ngLoad, warnings, albumLoaded,
                   localStorage, albumList>>
    /\ UNCHANGED <<proxyVars, sqlVars>>

\* lines 161-177 and 237 with shouldSave = true: a post with unusable pixel
\* data is reported once and dropped; otherwise it is stored with its pixels
\* sanitised and shown first
addToAlbum(postData) ==
    IF ~Usable(postData)
    THEN /\ hasNotifiedInvalidPixels' = TRUE
         /\ UNCHANGED <<localStorage, albumList>>
    ELSE /\ localStorage' =
                <<[postData EXCEPT
                      !.pixels = parseAndSanitizePixels(postData.pixels)]>>
                \o localStorage
         /\ albumList' = <<postData.id>> \o albumList
         /\ UNCHANGED hasNotifiedInvalidPixels

\* lines 285-301: response.json() settles. After a response that is not ok
\* an Error is thrown whatever the body; after an ok response the body is
\* not JSON, or is null, or is a post, which addToAlbum takes unless
\* localStorage throws
ExchangeJsonSettles(k) ==
    /\ k \in 1..Len(pending)
    /\ pending[k].stage \in {"json", "errorJson"}
    /\ IF pending[k].stage = "errorJson"
       THEN /\ Failed(k, "http_error")
            /\ UNCHANGED <<localStorage, albumList,
                           hasNotifiedInvalidPixels>>
       ELSE \/ /\ Failed(k, "invalid_json")
               /\ UNCHANGED <<localStorage, albumList,
                              hasNotifiedInvalidPixels>>
            \/ /\ Succeeded(k, "waiting")
               /\ UNCHANGED <<localStorage, albumList,
                              hasNotifiedInvalidPixels>>
            \/ \E resultPost \in ResultPosts :
                \/ /\ addToAlbum(resultPost)
                   /\ Succeeded(k, "paired")
                \/ /\ Usable(resultPost)
                   /\ Failed(k, "storage_error")
                   /\ UNCHANGED <<localStorage, albumList,
                                  hasNotifiedInvalidPixels>>
    /\ UNCHANGED <<currentSelectedColor, edits, clicks>>
    /\ UNCHANGED <<clientNgWords, ngLoad, warnings, albumLoaded>>
    /\ UNCHANGED <<proxyVars, sqlVars>>

InitApp ==
    /\ ProxyIdle
    /\ SqlInit
    /\ \E stored \in StoredAlbums : AppInit(stored)

NextApp ==
    \/ DOMContentLoaded
    \/ FetchNgWordsSettles
    \/ TextNgWordsSettles
    \/ \E index \in PixelIndexes : ClickPixel(index)
    \/ \E color \in Colors : PickColor(color)
    \/ \E text \in TitleInputs : TypeTitle(text)
    \/ ExchangeClick
    \/ \E k \in 1..MaxClicks : ExchangeFetchSettles(k)
    \/ \E k \in 1..MaxClicks : ExchangeJsonSettles(k)

SpecApp == InitApp /\ [][NextApp]_vars

\* the load of the word list is over and it failed: the fetch rejected, or
\* it resolved with a response that is not ok
LoadHasFailed ==
    /\ ngLoad.pc = "done"
    /\ \/ ngLoad.kind = "rejected"
       \/ ngLoad.kind \in {"response", "unreadable"} /\ ~IsOk(ngLoad.status)

\* C17: after loadNgWords completes with a failed load (the fetch rejects,
\* or resolves with a response that is not ok) the word list is empty, a
\* warning was logged, and the album was loaded.
C17_FailedLoadEmptiesWordList ==
    LoadHasFailed =>
        /\ clientNgWords = <<>>
        /\ warnings > 0
        /\ albumLoaded

ErrorOutcomes ==
    {"network_error", "http_error", "invalid_json", "storage_error"}
SuccessOutcomes == {"waiting", "paired"}

\* the state part of C20: at most one submission is in flight, and the
\* button is disabled exactly while one is
C20_State ==
    /\ Len(pending) <= 1
    /\ disabled <=> pending # <<>>

\* the step part of C20: the button is disabled by the step that sends the
\* POST and enabled by the step that ends the handler, whatever the outcome;
\* an error leaves canvas and title as they are, a success resets them, and
\* nothing but a success or the user's own input changes them
C20_Step ==
    LET sends == Len(pending') > Len(pending)
        ends == Len(pending') < Len(pending)
    IN  /\ sends => ~disabled /\ disabled'
        /\ ends => ~disabled' /\ outcome' \in ErrorOutcomes \cup SuccessOutcomes
        /\ (ends /\ outcome' \in ErrorOutcomes) =>
               UNCHANGED <<currentPixels, titleValue>>
        /\ (ends /\ outcome' \in SuccessOutcomes) =>
               currentPixels' = AllWhite /\ titleValue' = <<>>
        /\ (edits' = edits /\ ~(ends /\ outcome' \in SuccessOutcomes)) =>
               UNCHANGED <<currentPixels, titleValue>>

\* C20: the exchange button is disabled for exactly the time a submission is
\* in flight: disabled before the POST is sent, enabled again on every
\* outcome, so that no two submissions are in flight at once; canvas and
\* title are reset only after a successful response and are left unchanged
\* on any error.
C20_ButtonDisabledWhileInFlight == [][C20_Step]_vars /\ []C20_State

\* a submission of a drawing with a title ended in an HTTP error: the button
\* is enabled again and the drawing and the title are still there
C20_Witness ==
    /\ outcome = "http_error"
    /\ ~disabled
    /\ pending = <<>>
    /\ ~isCanvasWhite
    /\ titleValue = <<"n", "e", "k", "o">>

(***************************************************************************)
(* The album of the client on its own: addToAlbum called with any post,    *)
(* the delete button of an album item, loadAlbumFromStorage on a page      *)
(* that was opened, and the page opened again over the same localStorage.  *)
(***************************************************************************)
\* the posts addToAlbum is given: those a response may carry, and posts
\* with pixels as an array, with none, or with the JSON text of a string of
\* 16 characters
AlbumPosts ==
    ResultPosts \cup
    {[id |-> 11, pixels |-> Arr(Items16)],
     [id |-> 12, pixels |-> Arr(OneShort)],
     [id |-> 13, pixels |-> NotArr("undefined")],
     [id |-> 14, pixels |-> Str(<<"\"">> \o Rep("a", CanvasSize) \o <<"\"">>)]}

\* what earlier visits and earlier versions left in localStorage
OlderAlbums ==
    StoredAlbums \cup
    {<<[id |-> 2, pixels |-> Str(CutOffText)],
       [id |-> 1, pixels |-> Arr(Items16)],
       [id |-> 2, pixels |-> Str(JsonStringifyArray(Colours16))],
       [id |-> 3, pixels |-> Arr(OneShort)]>>,
     <<[id |-> 4, pixels |-> Str(<<"5">>)],
       [id |-> 5, pixels |-> Str(JsonStringifyArray(Colours16))]>>}

InitAlbum ==
    /\ ProxyIdle
    /\ SqlInit
    /\ \E stored \in OlderAlbums : AppInit(stored)

\* window.addToAlbum(postData, true)
CallAddToAlbum(postData) ==
    /\ Len(localStorage) < MaxAlbum
    /\ Len(albumList) < MaxAlbum
    /\ addToAlbum(postData)
    /\ UNCHANGED <<clientNgWords, ngLoad, warnings, albumLoaded,
                   currentSelectedColor, currentPixels, titleValue, disabled,
                   pending, outcome, edits, clicks>>
    /\ UNCHANGED <<proxyVars, sqlVars>>

\* line 242, once on a page
CallLoadAlbumFromStorage ==
    /\ ~albumLoaded
    /\ loadAlbumFromStorage
    /\ UNCHANGED <<clientNgWords, ngLoad, warnings, currentSelectedColor,
                   currentPixels, titleValue, disabled, pending, outcome,
                   edits, clicks, hasNotifiedInvalidPixels>>
    /\ UNCHANGED <<proxyVars, sqlVars>>

\* lines 206-212, the deletion confirmed: the item leaves the album and the
\* posts with its id leave localStorage
DeleteItem(k) ==
    /\ k \in 1..Len(albumList)
    /\ albumList' = Without(albumList, k)
    /\ localStorage' = removeFromStorage(localStorage, [id |-> albumList[k]])
    /\ UNCHANGED <<clientNgWords, ngLoad, warnings, albumLoaded,
                   currentSelectedColor, currentPixels, titleValue, disabled,
                   pending, outcome, edits, clicks,
                   hasNotifiedInvalidPixels>>
    /\ UNCHANGED <<proxyVars, sqlVars>>

\* the page is opened again: the script starts over, localStorage stays
Reopen ==
    /\ albumLoaded
    /\ albumLoaded' = FALSE
    /\ albumList' = <<>>
    /\ hasNotifiedInvalidPixels' = FALSE
    /\ UNCHANGED <<clientNgWords, ngLoad, warnings, currentSelectedColor,
                   currentPixels, titleValue, disabled, pending, outcome,
                   edits, clicks, localStorage>>
    /\ UNCHANGED <<proxyVars, sqlVars>>

NextAlbum ==
    \/ \E postData \in AlbumPosts : CallAddToAlbum(postData)
    \/ CallLoadAlbumFromStorage
    \/ \E k \in 1..(2 * MaxAlbum) : DeleteItem(k)
    \/ Reopen

SpecAlbum == InitAlbum /\ [][NextAlbum]_vars

\* the value pixel data denotes: text stands for what it parses to
DataOf(rawPixels) ==
    IF rawPixels.t = "string" THEN JsonParse(rawPixels.s)
    ELSE Parsed(rawPixels, 0)

\* the pixel data is an array of 16 items
IsArray16(rawPixels) ==
    /\ DataOf(rawPixels).ok
    /\ DataOf(rawPixels).value.t = "array"
    /\ Len(DataOf(rawPixels).value.items) = 16

\* pixels are an array of exactly 16 items, each # and 6 hex digits
SixteenColours(pixels) ==
    /\ pixels.t = "array"
    /\ Len(pixels.items) = 16
    /\ \A i \in 1..16 : IsHashHex6(pixels.items[i])

\* the pixels of entry are those of post with every item that is not a
\* colour replaced by #cccccc
SanitisedFrom(entry, post) ==
    /\ IsArray16(post.pixels)
    /\ SixteenColours(entry.pixels)
    /\ \A i \in 1..16 :
        LET item == DataOf(post.pixels).value.items[i]
        IN  entry.pixels.items[i] =
                IF IsHashHex6(item) THEN item ELSE Str(FallbackColor)

\* the posts addToAlbum is given have ids of their own
GivenIds == {p.id : p \in AlbumPosts}

\* the state part of C21: the stored entries that addToAlbum wrote hold 16
\* colours, and no post given with other pixel data than an array of 16 is
\* stored or shown
C21_State ==
    /\ \A i \in 1..Len(localStorage) :
        localStorage[i].id \in GivenIds =>
            \E p \in AlbumPosts :
                p.id = localStorage[i].id
                /\ SanitisedFrom(localStorage[i], p)
    /\ \A p \in AlbumPosts :
        ~IsArray16(p.pixels) =>
            /\ p.id \notin Range(Ids(localStorage))
            /\ p.id \notin Range(albumList)

\* the step part of C21: loading the album removes every stored entry whose
\* pixel data is not an array of 16 and keeps, in order, every entry whose
\* id is not the id of such an entry; it shows the entries with an array of
\* 16 and no other; a delete removes no entry with another id than the
\* deleted item's
C21_Step ==
    LET unusableIds == {localStorage[i].id : i \in
                           {j \in 1..Len(localStorage) :
                               ~IsArray16(localStorage[j].pixels)}}
        Kept(p) == p.id \notin unusableIds
        loads == albumLoaded' /\ ~albumLoaded
        deletes == Len(albumList') < Len(albumList) /\ albumLoaded' = albumLoaded
    IN  /\ loads =>
            /\ \A i \in 1..Len(localStorage') :
                   IsArray16(localStorage'[i].pixels)
            /\ localStorage' = SelectSeq(localStorage, Kept)
            /\ albumList' =
                   Ids(SelectSeq(localStorage,
                                 LAMBDA p : IsArray16(p.pixels)))
                   \o albumList
        /\ deletes =>
            \E id \in Range(albumList) :
                localStorage' =
                    SelectSeq(localStorage, LAMBDA p : p.id # id)

\* C21: after any sequence of addToAlbum, delete and loadAlbumFromStorage
\* operations every entry addToAlbum wrote to storage holds exactly 16
\* pixels, each # and 6 hex digits, invalid colours replaced by #cccccc; a
\* post given with pixel data that is not an array of 16 is never stored or
\* shown; a stored entry with such data is removed when the album is loaded
\* and no entry with a different id is removed with it.
C21_AlbumHoldsSanitisedPixels == [][C21_Step]_vars /\ []C21_State

\* the album was loaded over a stored album of four entries and lost the
\* entries with ids 2 and 3 but not the one with id 1; then a post with a
\* bad colour was stored with #cccccc in its place, and one with 15 pixels
\* was reported and dropped
C21_Witness ==
    /\ albumLoaded
    /\ hasNotifiedInvalidPixels
    /\ Len(localStorage) = 2
    /\ localStorage[1].id = 8
    /\ localStorage[1].pixels.items[1] = Str(FallbackColor)
    /\ localStorage[1].pixels.items[2] = Str(GoodColor)
    /\ localStorage[2].id = 1
    /\ albumList = <<8, 1>>

====
